---------------------------- MODULE Spec2Model ----------------------------
(***************************************************************************)
(* Foval: the field validation pipeline of src/foval.js.                   *)
(*                                                                         *)
(* A form owns field definitions (defineField), an optional whole-form     *)
(* check (additionalValidation) and is validated by validate(), which runs *)
(* per field: before-transforms, validations, after-transforms, through    *)
(* the async library (waterfall / each / eachSeries).                      *)
(*                                                                         *)
(* JavaScript is single threaded: the variable `active` names the field    *)
(* whose code is on the call stack (0: the stack is empty).  The built-in  *)
(* steps complete synchronously; a 'custom' step calls a function of the   *)
(* caller, which completes either synchronously or in a later tick.        *)
(* The async library is modelled by its documented contract: each() starts *)
(* the iteratee for every item without waiting and calls its final         *)
(* callback once, on the first error or when every item has completed;     *)
(* eachSeries() runs one item after the other; waterfall() passes the      *)
(* results of a task as the FIRST arguments of the next task and the       *)
(* callback last, and on an error skips the remaining tasks.               *)
(***************************************************************************)
EXTENDS Integers, Sequences, FiniteSets, TLC

VARIABLES
  stopOnInvalid,           \* this.stopOnInvalid
  rawData,                 \* this.rawData: field name -> raw value
  definitions,             \* this.definitions, in insertion order
  additionalValidationFn,  \* this.additionalValidationFn
  lastError,               \* what the last defineField call threw
  run,                     \* position of validate(): idle / each / additional / returned / crashed
  launched,                \* number of fields async.each has started
  active,                  \* field whose code is on the call stack, 0 if none
  fs,                      \* per field: the locals of its pipeline
  validationResults,       \* closure variable of validateFields
  isFormValid,             \* closure variable of validateFields
  eachCalled,              \* async.each has called its final callback
  addlInvoked,             \* number of invocations of the additional check
  cb,                      \* the arguments validate()'s callback was called with
  thrown,                  \* exception that escaped validate(), "none" if none
  fieldValid               \* per field: isFieldValid as reported by runValidations

vars == <<stopOnInvalid, rawData, definitions, additionalValidationFn, lastError,
          run, launched, active, fs, validationResults, isFormValid, eachCalled,
          addlInvoked, cb, thrown, fieldValid>>

defVars == <<stopOnInvalid, rawData, definitions, additionalValidationFn, lastError>>

-----------------------------------------------------------------------------
(* Bounds *)

\* Largest number of fields a form defines.
MaxFields == 2

\* Longest string a custom transform may still extend.
MaxLen == 3

-----------------------------------------------------------------------------
(* JavaScript values.  Strings are sequences of one-character strings. *)

Str(s)    == [t |-> "str", s |-> s]
Num(n)    == [t |-> "num", n |-> n]
NaN       == [t |-> "nan"]
Undefined == [t |-> "undef"]
Null      == [t |-> "null"]

\* ToBoolean of a value.
Truthy(v) ==
  CASE v.t = "str" -> v.s # <<>>
    [] v.t = "num" -> v.n # 0
    [] OTHER       -> FALSE

\* String.prototype.trim on a sequence of characters.
RECURSIVE TrimLeft(_)
TrimLeft(s) == IF s # <<>> /\ Head(s) = " " THEN TrimLeft(Tail(s)) ELSE s

RECURSIVE TrimRight(_)
TrimRight(s) ==
  IF s # <<>> /\ s[Len(s)] = " " THEN TrimRight(SubSeq(s, 1, Len(s) - 1)) ELSE s

Trim(s) == TrimRight(TrimLeft(s))

UpperChar(c) == CASE c = "x" -> "X" [] c = "y" -> "Y" [] OTHER -> c
LowerChar(c) == CASE c = "X" -> "x" [] c = "Y" -> "y" [] OTHER -> c

ToUpperCase(s) == [k \in 1..Len(s) |-> UpperChar(s[k])]
ToLowerCase(s) == [k \in 1..Len(s) |-> LowerChar(s[k])]

DigitOf(c) == CASE c = "0" -> 0 [] c = "7" -> 7 [] OTHER -> -1

\* parseInt(s, 10): leading whitespace is skipped, then the digits are read;
\* no digit gives NaN.
RECURSIVE ParseDigits(_, _)
ParseDigits(s, acc) ==
  IF s # <<>> /\ DigitOf(Head(s)) >= 0
    THEN ParseDigits(Tail(s), 10 * acc + DigitOf(Head(s)))
    ELSE acc

ParseInt(v) ==
  IF v.t = "num" THEN v
  ELSE IF v.t # "str" THEN NaN
  ELSE LET s == TrimLeft(v.s)
       IN IF s # <<>> /\ DigitOf(Head(s)) >= 0 THEN Num(ParseDigits(s, 0)) ELSE NaN

DigitChar(d) == IF d = 7 THEN "7" ELSE "0"

\* String(v) for the values of the model (numbers are single digits here).
ToStr(v) ==
  CASE v.t = "str"   -> v
    [] v.t = "num"   -> Str(<<DigitChar(v.n)>>)
    [] v.t = "nan"   -> Str(<<"N", "a", "N">>)
    [] v.t = "undef" -> Str(<<"u">>)
    [] OTHER         -> Str(<<"n">>)

-----------------------------------------------------------------------------
(* Type registry *)

validDataTypes ==
  [a \in {"string", "str", "number", "int", "float", "email", "telephone", "tel",
          "url", "boolean", "bool", "checkbox", "password"} |->
     CASE a = "str"    -> "string"
       [] a = "number" -> "int"
       [] a = "tel"    -> "telephone"
       [] a = "bool"   -> "boolean"
       [] OTHER        -> a]

defaultValues ==
  [t \in {"string", "int", "float", "email", "telephone", "url", "boolean",
          "checkbox", "password"} |->
     CASE t \in {"int", "float"}        -> Num(0)
       [] t \in {"boolean", "checkbox"} -> Null
       [] OTHER                         -> Str(<<>>)]

\* The registries are plain object literals: a lookup registry[key] also finds
\* what they inherit from Object.prototype, and every inherited member named
\* here is a function (truthy, typeof 'function').
ObjectPrototypeKeys ==
  {"constructor", "hasOwnProperty", "isPrototypeOf", "propertyIsEnumerable",
   "toLocaleString", "toString", "valueOf"}

\* validDataTypes[input.dataType], line 130: the canonical type, the inherited
\* member ("Object.prototype") or undefined.
NormalisedDataType(a) ==
  IF a \in DOMAIN validDataTypes THEN validDataTypes[a]
  ELSE IF a \in ObjectPrototypeKeys THEN "Object.prototype"
  ELSE "undefined"

\* defaultValues[normalisedDataType], line 142.
DefaultValue(t) == IF t \in DOMAIN defaultValues THEN defaultValues[t] ELSE Undefined

\* Keys of Foval.prototype.transforms and Foval.prototype.validations.
TransformNames ==
  {"custom", "md5", "str-br-to-line-break", "str-case", "str-collapse-whitespace",
   "str-line-break-to-br", "str-replace", "str-trim", "telephone"}

ValidationNames ==
  {"custom", "email", "in-list", "match-field", "numeric", "password", "regexp",
   "required", "str-length", "telephone", "url"}

B(b) == IF b THEN "true" ELSE "false"

-----------------------------------------------------------------------------
(* Step options.  kind "true"/"false": the booleans; "str": a string scalar *)
(* (arg); "fn": a function of the caller (arg names it); "obj": a plain     *)
(* object {run, <primary option>: arg, min}; min = 0 stands for no minimum. *)
(* The further options of an object are max (<<>>: none, <<m>>: m),         *)
(* allowZero and international ("null", "true" or "false").                 *)

OptTrue        == [kind |-> "true",  run |-> TRUE,  arg |-> "", min |-> 0,
                   max |-> <<>>, allowZero |-> TRUE, international |-> "null"]
OptFalse       == [OptTrue EXCEPT !.kind = "false"]
OptStr(a)      == [OptTrue EXCEPT !.kind = "str", !.arg = a]
OptFn(f)       == [OptTrue EXCEPT !.kind = "fn", !.arg = f]
OptObj(r, a)   == [OptTrue EXCEPT !.kind = "obj", !.run = r, !.arg = a]
OptMin(r, m)   == [OptTrue EXCEPT !.kind = "obj", !.run = r, !.min = m]

\* {min: mn, max: mx, allowZero: z} of 'numeric'.
OptNumeric(mn, mx, z) ==
  [OptTrue EXCEPT !.kind = "obj", !.min = mn, !.max = <<mx>>, !.allowZero = z]

\* {format: f, international: i} of the 'telephone' transform.
OptTelephone(f, i) ==
  [OptTrue EXCEPT !.kind = "obj", !.arg = f, !.international = B(i)]

Step(n, o) == [name |-> n, opts |-> o]

\* ToBoolean of an options value: only `false` is falsy among the modelled kinds.
OptTruthy(o) == o.kind # "false"

\* steps[name] is present and truthy.
HasTruthy(steps, n) ==
  \E k \in 1..Len(steps) : steps[k].name = n /\ OptTruthy(steps[k].opts)

\* SetStep putting a new key in front of the existing ones.
SetStepFirst(steps, n, o) ==
  IF \E k \in 1..Len(steps) : steps[k].name = n
    THEN [k \in 1..Len(steps) |->
            IF steps[k].name = n THEN Step(n, o) ELSE steps[k]]
    ELSE <<Step(n, o)>> \o steps

\* steps[name] = o: an existing key keeps its position, a new key is appended.
SetStep(steps, n, o) ==
  IF \E k \in 1..Len(steps) : steps[k].name = n
    THEN [k \in 1..Len(steps) |->
            IF steps[k].name = n THEN Step(n, o) ELSE steps[k]]
    ELSE Append(steps, Step(n, o))

StepNames(steps) == {steps[k].name : k \in 1..Len(steps)}

-----------------------------------------------------------------------------
(* defineField *)

NameIndex(defs, n) ==
  IF \E k \in 1..Len(defs) : defs[k].fieldName = n
    THEN CHOOSE k \in 1..Len(defs) : defs[k].fieldName = n
    ELSE 0

\* The entry this.definitions[fieldName], or Undefined.
Lookup(defs, n) == IF NameIndex(defs, n) = 0 THEN Undefined ELSE defs[NameIndex(defs, n)]

\* AlreadyDefined testing the stored value instead of the stored definition.
AlreadyDefinedByValue(defs, n) == Lookup(defs, n) # Undefined /\ Truthy(Lookup(defs, n).value)

\* this.definitions[input.fieldName] is truthy: a stored definition is an
\* object, which is truthy whatever it holds.
AlreadyDefined(defs, n) == Lookup(defs, n) # Undefined

\* The typecast of the start value, lines 140-154.  The switch has no case for
\* url and password (nor for a data type that is no canonical type).  The raw values of the model hold whole numbers only, on
\* which parseFloat and parseInt agree.
Typecast(t, typecasting, v) ==
  IF ~typecasting THEN v
  ELSE CASE t \in {"string", "email", "telephone"} -> ToStr(v)
         [] t \in {"int", "float"}                 -> ParseInt(v)
         [] OTHER                                  -> v

StartValue(raw, input) ==
  LET t == NormalisedDataType(input.dataType)
      rawValue == raw[input.fieldName]
  IN Typecast(t, input.typecasting,
              IF rawValue = Undefined THEN DefaultValue(t) ELSE rawValue)

\* Lines 184-186: automatic transforms based on properties.
AutoBefore(input) ==
  LET b1 == IF input.modify # "" /\ ~HasTruthy(input.before, "custom")
              THEN SetStep(input.before, "custom", OptFn(input.modify))
              ELSE input.before
      b2 == IF input.trim /\ ~HasTruthy(b1, "str-trim")
              THEN SetStep(b1, "str-trim", OptTrue)
              ELSE b1
      t  == NormalisedDataType(input.dataType)
  IN IF t \in {"email", "telephone", "url"} /\ ~HasTruthy(b2, "str-trim")
       THEN SetStep(b2, "str-trim", OptTrue)
       ELSE b2

\* Lines 188-209: automatic validations based on properties and data type.
AutoValidations(input) ==
  LET v1 == IF input.required /\ ~HasTruthy(input.validations, "required")
              THEN SetStep(input.validations, "required", OptTrue)
              ELSE input.validations
      t  == NormalisedDataType(input.dataType)
  IN IF t \in {"email", "telephone", "url"} /\ ~HasTruthy(v1, t)
       THEN SetStep(v1, t, OptTrue)
       ELSE v1

\* Lines 211-230: the stored definition.
NewDefinition(raw, input) ==
  [fieldName   |-> input.fieldName,
   dataType    |-> NormalisedDataType(input.dataType),
   value       |-> StartValue(raw, input),
   required    |-> input.required,
   trim        |-> input.trim,
   modify      |-> input.modify,
   defaultValue |-> input.defaultValue,
   typecasting |-> input.typecasting,
   before      |-> AutoBefore(input),
   after       |-> input.after,
   validations |-> AutoValidations(input),
   rawValue    |-> raw[input.fieldName],
   isValid     |-> "null",
   extraData   |-> {}]

\* What defineField throws for this input, "none" if it stores the field.
DefineError(defs, input) ==
  CASE AlreadyDefined(defs, input.fieldName)          -> "duplicate-field"
    [] NormalisedDataType(input.dataType) = "undefined" -> "invalid-data-type"
    [] ~(StepNames(input.before) \subseteq TransformNames \cup ObjectPrototypeKeys)
                                                       -> "invalid-transform"
    [] ~(StepNames(input.after) \subseteq TransformNames \cup ObjectPrototypeKeys)
                                                       -> "invalid-transform"
    [] ~(StepNames(input.validations) \subseteq ValidationNames \cup ObjectPrototypeKeys)
                                                       -> "invalid-validation"
    [] OTHER                                           -> "none"

-----------------------------------------------------------------------------
(* The functions a caller passes to 'custom' steps and as additional check. *)
(* Each calls finish(err, ...) once, at once or in a later tick.            *)

\* finish(err, transformedValue) of a custom transform function.
CustomTransformFn(f, v) ==
  CASE f = "tAppendY" ->
         [err |-> "null",
          v   |-> IF v.t = "str" /\ Len(v.s) < MaxLen THEN Str(Append(v.s, "y")) ELSE v]
    [] f = "tUpper" ->
         [err |-> "null", v |-> IF v.t = "str" THEN Str(ToUpperCase(v.s)) ELSE v]
    [] OTHER -> [err |-> "boom", v |-> Undefined]

\* finish(err, isValid, reason) of a custom validation function.
CustomValidationFn(f, v) ==
  CASE f = "vPass" -> [err |-> "null", isValid |-> TRUE,  reason |-> "null"]
    [] f = "vFail" -> [err |-> "null", isValid |-> FALSE, reason |-> "custom-fail"]
    [] f = "vStop" -> [err |-> "stop", isValid |-> FALSE, reason |-> "null"]
    [] OTHER       -> [err |-> "boom", isValid |-> FALSE, reason |-> "null"]

-----------------------------------------------------------------------------
(* Transform and validation registries.  A call of a registry function      *)
(* either throws (r = "throw"), calls back synchronously (r = "value" /     *)
(* "result") or hands over to a function of the caller (r = "call").        *)

\* checkDataType letting every data type pass.
checkDataTypeAlways(allowedDataTypes, d) == TRUE

\* checkDataType: lines 484-499.
checkDataType(allowedDataTypes, d) == d.dataType \in allowedDataTypes

\* The primary option of a step whose options may be a scalar: lines 577-586.
PrimaryOption(o) == IF o.kind \in {"obj", "str", "fn"} THEN o.arg ELSE ""

IsFunction(o) == o.kind = "fn" \/ (o.kind = "obj" /\ o.arg # "")

Capitalise(s) ==
  LET low == ToLowerCase(s)
  IN [k \in 1..Len(s) |->
        IF k = 1 \/ low[k - 1] = " " THEN UpperChar(low[k]) ELSE low[k]]

\* Foval.prototype.transforms[name](form, definition, options, callback).
TransformCall(n, d, o) ==
  CASE n = "str-trim" ->
         IF ~checkDataType({"string", "email", "telephone", "url"}, d)
           THEN [r |-> "throw", err |-> "transform-wrong-data-type"]
         ELSE IF d.value.t # "str"
           THEN [r |-> "throw", err |-> "TypeError"]
         ELSE [r |-> "value", v |-> Str(Trim(d.value.s))]
    [] n = "str-case" ->
         IF ~checkDataType({"string", "email", "url"}, d)
           THEN [r |-> "throw", err |-> "transform-wrong-data-type"]
         ELSE IF PrimaryOption(o) \notin {"lower", "upper", "capitalise", "capitalize"}
           THEN [r |-> "throw", err |-> "str-case-invalid-case"]
         ELSE IF d.value.t # "str"
           THEN [r |-> "throw", err |-> "TypeError"]
         ELSE [r |-> "value",
               v |-> CASE PrimaryOption(o) = "lower" -> Str(ToLowerCase(d.value.s))
                       [] PrimaryOption(o) = "upper" -> Str(ToUpperCase(d.value.s))
                       [] OTHER                      -> Str(Capitalise(d.value.s))]
    [] n = "telephone" ->
         \* Lines 820-906.  Every predefined pattern holds a token, so the loop
         \* is entered, and its first test calls nextPat.match on the array
         \* that RegExp.exec returned: a TypeError.  Before that,
         \* value.match on a value that is no string, valMatch[2] of a value
         \* without digit and patterns[format] of an unknown format are
         \* TypeErrors as well.
         IF ~checkDataType({"telephone"}, d)
           THEN [r |-> "throw", err |-> "transform-wrong-data-type"]
           ELSE [r |-> "throw", err |-> "TypeError"]
    [] n = "custom" ->
         IF ~IsFunction(o)
           THEN [r |-> "throw", err |-> "custom-transform-no-function"]
           ELSE [r |-> "call", fn |-> o.arg]

\* The 'required' validation's emptiness check: lines 1229-1247.
IsPopulated(d) ==
  CASE d.dataType \in {"int", "float"} -> ParseInt(d.value).t = "num"
    [] d.dataType = "boolean"          -> d.value.t = "bool"
    [] d.dataType = "checkbox"         -> d.value.t = "bool" /\ d.value.b
    [] OTHER                           -> Truthy(d.value)

WordChar(c) == c \in {"x", "y", "X", "Y", "0", "7", "a", "u", "n", "N"}

\* The part of an address after the '@': labels of word characters joined by
\* single dots, at least two of them.
DomainPart(s) ==
  /\ s # <<>>
  /\ \A k \in 1..Len(s) : WordChar(s[k]) \/ s[k] = "."
  /\ WordChar(s[1]) /\ WordChar(s[Len(s)])
  /\ \A k \in 1..(Len(s) - 1) : ~(s[k] = "." /\ s[k + 1] = ".")
  /\ \E k \in 1..Len(s) : s[k] = "."

\* value.match(regexp) of the 'email' validation, line 967: a local part of
\* word characters and punctuation (the dot included, blanks and '@' not),
\* an '@', then the domain.
IsEmail(s) ==
  \E k \in 2..(Len(s) - 1) :
    /\ s[k] = "@"
    /\ \A j \in 1..(k - 1) : WordChar(s[j]) \/ s[j] = "."
    /\ DomainPart(SubSeq(s, k + 1, Len(s)))

IsDigit(c) == c \in {"0", "7"}

\* value.match(/(?:\+(\d+)\.)?(\d+)/) of the 'telephone' validation finds a
\* match wherever the value holds a digit.
HasDigit(s) == \E k \in 1..Len(s) : IsDigit(s[k])

\* Countersign's test(value, minScore, callback) under the default
\* requirements of line 1139: success for a string of six or more characters
\* with a lower-case and an upper-case letter (none of the strings here is on
\* its list of common passwords); no success for any other value.
CountersignTest(v) ==
  /\ v.t = "str"
  /\ Len(v.s) >= 6
  /\ \E k \in 1..Len(v.s) : v.s[k] \in {"x", "y", "a", "u", "n"}
  /\ \E k \in 1..Len(v.s) : v.s[k] \in {"X", "Y", "N"}

\* Foval.prototype.validations[name](form, definition, options, callback).
ValidationCall(n, d, o) ==
  CASE n = "required" ->
         IF IsPopulated(d)
           THEN [r |-> "result", isValid |-> TRUE,  reason |-> "null"]
           ELSE [r |-> "result", isValid |-> FALSE, reason |-> "required"]
    [] n = "email" ->
         IF ~checkDataType({"email"}, d)
           THEN [r |-> "throw", err |-> "validation-wrong-data-type"]
         ELSE IF d.value.t # "str"
           THEN [r |-> "throw", err |-> "TypeError"]
         ELSE IF ~IsEmail(d.value.s)
           THEN [r |-> "result", isValid |-> FALSE, reason |-> "invalid"]
         ELSE [r |-> "result", isValid |-> TRUE, reason |-> "null"]
    [] n = "match-field" ->
         \* Line 1044 calls form.getField, which Foval does not define.
         [r |-> "throw", err |-> "TypeError"]
    [] n = "numeric" ->
         \* Lines 1089-1120; the values of int and float fields here are
         \* numbers or NaN, and every comparison with NaN is false.
         IF ~checkDataType({"int", "float"}, d)
           THEN [r |-> "throw", err |-> "validation-wrong-data-type"]
         ELSE IF o.kind = "obj" /\ d.value.t = "num" /\ d.value.n < o.min
           THEN [r |-> "result", isValid |-> FALSE, reason |-> "too-small"]
         ELSE IF o.kind = "obj" /\ d.value.t = "num" /\ o.max # <<>> /\ d.value.n > o.max[1]
           THEN [r |-> "result", isValid |-> FALSE, reason |-> "too-large"]
         ELSE IF o.kind = "obj" /\ ~o.allowZero /\ d.value = Num(0)
           THEN [r |-> "result", isValid |-> FALSE, reason |-> "zero-not-allowed"]
         ELSE [r |-> "result", isValid |-> TRUE, reason |-> "null"]
    [] n = "password" ->
         \* Lines 1131-1165: whatever the scorer reports, the first return
         \* statement of its callback reports the step as failed.
         IF ~checkDataType({"password"}, d)
           THEN [r |-> "throw", err |-> "validation-wrong-data-type"]
           ELSE [r |-> "result", isValid |-> FALSE, reason |-> "countersign-result"]
    [] n = "telephone" ->
         IF ~checkDataType({"telephone"}, d)
           THEN [r |-> "throw", err |-> "validation-wrong-data-type"]
         ELSE IF d.value.t # "str"
           THEN [r |-> "throw", err |-> "TypeError"]
         ELSE IF ~HasDigit(d.value.s)
           THEN [r |-> "result", isValid |-> FALSE, reason |-> "invalid"]
         ELSE [r |-> "result", isValid |-> TRUE, reason |-> "null"]
    [] n = "str-length" ->
         IF ~checkDataType({"string", "email"}, d)
           THEN [r |-> "throw", err |-> "validation-wrong-data-type"]
         ELSE IF d.value.t # "str"
           THEN [r |-> "result", isValid |-> TRUE, reason |-> "null"]
         ELSE IF o.kind = "obj" /\ Len(d.value.s) < o.min
           THEN [r |-> "result", isValid |-> FALSE, reason |-> "too-short"]
         ELSE [r |-> "result", isValid |-> TRUE, reason |-> "null"]
    [] n = "custom" ->
         IF ~IsFunction(o)
           THEN [r |-> "throw", err |-> "custom-validation-no-function"]
           ELSE [r |-> "call", fn |-> o.arg]

\* Skipped without the test of options.run.
SkippedOnlyFalsy(o) == ~OptTruthy(o)

\* A step is skipped: lines 385-387 and 425-427.
Skipped(o) == ~OptTruthy(o) \/ (o.kind = "obj" /\ o.run = FALSE)

-----------------------------------------------------------------------------
(* Inputs *)

FieldNames == {"a", "b", "c", "e", "p", "t"}

\* packageJSON.version, line 81; the version script keeps the version of the
\* client collector equal to it.
packageVersion == "0.0.20"

Version(v) == [t |-> "version", v |-> v]

\* semver.eq on two versions in normal form.
SemverEq(a, b) == a = b

\* ConstructorError without the version test.
ConstructorErrorNever(data) == "none"

\* What the constructor throws for this data, lines 87-93: a tag that is
\* present and not the module's version is fatal.
ConstructorError(data) ==
  IF data["__FovalClientVersion"] # Undefined
     /\ ~SemverEq(data["__FovalClientVersion"].v, packageVersion)
    THEN "old-foval-client-version"
    ELSE "none"

\* The form values of two submissions.
FormValues1 ==
  [n \in FieldNames |->
     CASE n = "a" -> Str(<<" ", "x">>)
       [] n = "b" -> Str(<<>>)
       [] n = "c" -> Str(<<"7">>)
       [] n = "e" -> Str(<<"x", "@", "x", ".", "x">>)
       [] n = "p" -> Num(7)
       [] n = "t" -> Str(<<"+", "7", ".", "0", "7">>)]

FormValues2 ==
  [n \in FieldNames |->
     CASE n = "a" -> Str(<<>>)
       [] n = "b" -> Str(<<"X", " ">>)
       [] n = "c" -> Undefined
       [] n = "e" -> Str(<<>>)
       [] n = "p" -> Str(<<"x", "X", "y", "Y", "x", "X">>)
       [] n = "t" -> Str(<<"0", "7">>)]

\* Form values with the version tag the client collector adds (Undefined:
\* the data carries none).
Tagged(values, tag) ==
  [n \in DOMAIN values \cup {"__FovalClientVersion"} |->
     IF n = "__FovalClientVersion" THEN tag ELSE values[n]]

\* The data bags a form is constructed from.
RawBags ==
  { Tagged(FormValues1, Version("0.0.20")),
    Tagged(FormValues2, Undefined),
    Tagged(FormValues1, Version("0.0.19")),
    Tagged(FormValues2, Version("0.1.0")) }

Input(n, t, req, trim, bef, val, aft) ==
  [fieldName |-> n, dataType |-> t, required |-> req, trim |-> trim, modify |-> "",
   defaultValue |-> Undefined, typecasting |-> TRUE, before |-> bef, validations |-> val, after |-> aft]

\* The field configurations handed to defineField.
FieldInputs ==
  { Input("a", "string", TRUE, TRUE,
          << Step("str-case", OptStr("upper")) >>,
          << Step("str-length", OptMin(TRUE, 1)), Step("custom", OptFn("vPass")) >>,
          << Step("str-case", OptStr("lower")) >>),
    Input("a", "str", FALSE, FALSE,
          << Step("custom", OptFn("tAppendY")), Step("str-trim", OptObj(FALSE, "")) >>,
          << Step("required", OptTrue), Step("custom", OptFn("vFail")),
             Step("str-length", OptMin(TRUE, 1)) >>,
          << Step("custom", OptFn("tUpper")) >>),
    Input("b", "string", FALSE, FALSE,
          << Step("str-trim", OptTrue), Step("custom", OptFn("tAppendY")) >>,
          << Step("custom", OptFalse), Step("str-length", OptMin(TRUE, 2)),
             Step("required", OptTrue) >>,
          << Step("str-case", OptStr("lower")), Step("custom", OptFn("tAppendY")) >>),
    Input("b", "string", FALSE, FALSE,
          << Step("custom", OptFn("tBoom")) >>,
          << Step("custom", OptFn("vBoom")) >>,
          << >>),
    Input("c", "int", TRUE, FALSE,
          << >>,
          << Step("custom", OptObj(TRUE, "vBoom")) >>,
          << >>),
    [Input("c", "number", FALSE, TRUE,
           << >>,
           << Step("custom", OptFn("vPass")) >>,
           << >>) EXCEPT !.defaultValue = Str(<<"7">>)],
    Input("e", "email", FALSE, FALSE,
          << Step("str-trim", OptFalse) >>,
          << >>,
          << >>),
    Input("p", "password", FALSE, FALSE,
          << >>,
          << Step("custom", OptFn("vStop")) >>,
          << >>),
    Input("p", "constructor", FALSE, FALSE,
          << >>,
          << Step("required", OptTrue) >>,
          << >>),
    Input("c", "int", FALSE, FALSE,
          << >>,
          << Step("numeric", OptNumeric(1, 50, FALSE)), Step("match-field", OptStr("a")) >>,
          << >>),
    Input("p", "password", FALSE, FALSE,
          << >>,
          << Step("password", OptTrue), Step("str-length", OptMin(TRUE, 1)) >>,
          << >>),
    Input("t", "tel", FALSE, FALSE,
          << >>,
          << >>,
          << Step("telephone", OptTelephone("basic", TRUE)) >>),
    Input("a", "hash", FALSE, FALSE, << >>, << >>, << >>),
    Input("a", "string", FALSE, FALSE, << Step("str-upper", OptTrue) >>, << >>, << >>),
    Input("a", "string", FALSE, FALSE, << >>, << >>, << Step("trim", OptTrue) >>),
    Input("a", "string", FALSE, FALSE, << >>, << Step("minlength", OptTrue) >>, << >>) }

\* What a caller hands to additionalValidation(fn).
AdditionalInputs == {"aValid", "aInvalid", "notAFunction"}

-----------------------------------------------------------------------------
(* State of one validate() run *)

N == Len(definitions)

NewField ==
  [st |-> "new", idx |-> 0, inflight |-> FALSE, err |-> "null", value |-> Undefined,
   isFieldValid |-> TRUE, result |-> <<>>, invoked |-> <<>>, stepErr |-> "null",
   beforeStart |-> Undefined, beforeEnd |-> Undefined,
   afterStart |-> Undefined, afterEnd |-> Undefined]

NoCallback ==
  [count |-> 0, err |-> "null", isFormValid |-> "undefined",
   results |-> [def |-> FALSE, v |-> <<>>], hash |-> [def |-> FALSE, v |-> <<>>]]

\* obj[k] = v on a mapping.
Put(obj, k, v) == [x \in DOMAIN obj \cup {k} |-> IF x = k THEN v ELSE obj[x]]

Init ==
  /\ stopOnInvalid \in BOOLEAN
  /\ rawData \in RawBags
  /\ definitions = <<>>
  /\ additionalValidationFn = "null"
  /\ lastError = "none"
  /\ run = "idle"
  /\ launched = 0
  /\ active = 0
  /\ fs = <<>>
  /\ validationResults = <<>>
  /\ isFormValid = TRUE
  /\ eachCalled = FALSE
  /\ addlInvoked = 0
  /\ cb = NoCallback
  /\ thrown = "none"
  /\ fieldValid = <<>>

runVars == <<run, launched, active, fs, validationResults, isFormValid, eachCalled,
             addlInvoked, cb, thrown, fieldValid>>

\* There is a form (the constructor has not thrown) and no run of validate()
\* is in progress: none was started, or the last one has called back and
\* every field it started has completed.  The methods of the form are called
\* in such states.
Idle ==
  /\ ConstructorError(rawData) = "none"
  /\ \/ run = "idle"
     \/ /\ run = "returned"
        /\ active = 0
        /\ launched = Len(fs)
        /\ \A i \in DOMAIN fs : fs[i].st = "done"

-----------------------------------------------------------------------------
(* Definition API *)

\* defineField(input): lines 122-235.
DefineField(input) ==
  /\ Idle
  /\ N < MaxFields \/ AlreadyDefined(definitions, input.fieldName)
  /\ lastError' = DefineError(definitions, input)
  /\ definitions' = IF DefineError(definitions, input) = "none"
                      THEN Append(definitions, NewDefinition(rawData, input))
                      ELSE definitions
  /\ UNCHANGED <<stopOnInvalid, rawData, additionalValidationFn>>
  /\ UNCHANGED runVars

\* attachFieldData(fieldName, propertyName, data): lines 530-541.
AttachFieldData(n, prop, data) ==
  /\ Idle
  /\ Lookup(definitions, n) # Undefined
  /\ definitions' = [definitions EXCEPT ![NameIndex(definitions, n)].extraData =
                       {e \in @ : e[1] # prop} \cup {<<prop, data>>}]
  /\ UNCHANGED <<stopOnInvalid, rawData, additionalValidationFn, lastError>>
  /\ UNCHANGED runVars

\* additionalValidation(fn): lines 243-251.
AdditionalValidation(fn) ==
  /\ Idle
  /\ additionalValidationFn' = IF fn # "notAFunction" THEN fn ELSE additionalValidationFn
  /\ UNCHANGED <<stopOnInvalid, rawData, definitions, lastError>>
  /\ UNCHANGED runVars

-----------------------------------------------------------------------------
(* validate() *)

\* generateFieldHash: lines 467-479.  this.definitions is a plain object, so
\* this.definitions.length is undefined, `i < ilen` is false at once and the
\* loop body never runs: the hash comes back empty.
generateFieldHash(defs) ==
  LET ilen == 0
  IN [n \in {defs[k].fieldName : k \in 1..ilen} |-> defs[NameIndex(defs, n)].value]

\* The final callback of async.each (lines 308-319), the second waterfall task
\* (lines 324-352) and the final callback of the waterfall (lines 354-365).
\* The waterfall calls performAdditionalValidation(isFormValid,
\* validationResults, callback): its parameter `next` is bound to the boolean,
\* so every `next(...)` in it throws a TypeError.
EachFinal(err, ifv, vr) ==
  /\ eachCalled' = TRUE
  /\ active' = 0
  /\ CASE err = "stop" ->
            /\ cb' = [count |-> cb.count + 1, err |-> "null", isFormValid |-> "false",
                      results |-> [def |-> TRUE, v |-> vr],
                      hash |-> [def |-> FALSE, v |-> <<>>]]
            /\ run' = "returned"
            /\ UNCHANGED <<thrown, addlInvoked>>
       [] err \notin {"stop", "null"} ->
            /\ cb' = [count |-> cb.count + 1, err |-> err, isFormValid |-> "undefined",
                      results |-> [def |-> FALSE, v |-> <<>>],
                      hash |-> [def |-> FALSE, v |-> <<>>]]
            /\ run' = "returned"
            /\ UNCHANGED <<thrown, addlInvoked>>
       [] OTHER ->
            IF additionalValidationFn = "null"
              THEN /\ thrown' = "next-is-not-a-function"
                   /\ run' = "crashed"
                   /\ UNCHANGED <<cb, addlInvoked>>
              ELSE /\ addlInvoked' = addlInvoked + 1
                   /\ run' = "additional"
                   /\ UNCHANGED <<cb, thrown>>

\* nextField(err): the completion callback of one item of async.each.
NextField(err, fsN, ifv, vr) ==
  IF ~eachCalled /\ (err # "null" \/ (launched = Len(fsN) /\ \A k \in DOMAIN fsN : fsN[k].st = "done"))
    THEN EachFinal(err, ifv, vr)
    ELSE /\ active' = 0
         /\ UNCHANGED <<eachCalled, cb, run, thrown, addlInvoked>>

\* validate(callback): lines 257-271, up to the start of async.each.  Each
\* call brings its own callback; a form without fields has not called back
\* before (its first run ends in the TypeError).
Validate ==
  /\ Idle
  /\ thrown = "none"
  /\ lastError' = "none"
  /\ launched' = 0
  /\ fs' = [k \in 1..N |-> NewField]
  /\ fieldValid' = [k \in 1..N |-> "null"]
  /\ validationResults' = <<>>
  /\ isFormValid' = TRUE
  /\ IF N = 0
       THEN EachFinal("null", TRUE, <<>>)
       ELSE /\ run' = "each"
            /\ active' = 0
            /\ eachCalled' = FALSE
            /\ cb' = NoCallback
            /\ UNCHANGED <<thrown, addlInvoked>>
  /\ UNCHANGED <<stopOnInvalid, rawData, definitions, additionalValidationFn>>

\* runTransforms starting from the audit copy instead of the current value.
PipelineStartRaw(definition) == definition.rawValue

\* var value = definition.value: line 378, the value a chain of transforms
\* starts from.
PipelineStart(definition) == definition.value

\* async.each starts the iteratee of the next field: lines 271-274 and the
\* entry of runTransforms, lines 373-378.
Launch ==
  /\ run # "idle"
  /\ thrown = "none"
  /\ active = 0
  /\ launched < Len(fs)
  /\ launched' = launched + 1
  /\ active' = launched + 1
  /\ fs' = [fs EXCEPT ![launched + 1] =
              [@ EXCEPT !.st = "before", !.idx = 1,
                        !.value = PipelineStart(definitions[launched + 1]),
                        !.beforeStart = PipelineStart(definitions[launched + 1])]]
  /\ UNCHANGED defVars
  /\ UNCHANGED <<run, validationResults, isFormValid, eachCalled, addlInvoked, cb,
                 thrown, fieldValid>>

StepList(i) ==
  CASE fs[i].st = "before"      -> definitions[i].before
    [] fs[i].st = "after"       -> definitions[i].after
    [] fs[i].st = "validations" -> definitions[i].validations
    [] OTHER                    -> <<>>

\* fs[i].stepErr is the error a step of field i has called back with, "null"
\* if none has.

\* Field i runs on the call stack and is not waiting for a custom function.
Running(i) ==
  /\ i \in DOMAIN fs
  /\ thrown = "none"
  /\ active = i
  /\ ~fs[i].inflight

Logged(i, n) == Append(fs[i].invoked, [phase |-> fs[i].st, name |-> n])

\* A step throws: the exception leaves validate() (or the tick) uncaught.
Throw(i, n, err) ==
  /\ thrown' = err
  /\ run' = "crashed"
  /\ active' = 0
  /\ fs' = [fs EXCEPT ![i].invoked = Logged(i, n)]
  /\ UNCHANGED <<launched, validationResults, isFormValid, eachCalled, addlInvoked, cb,
                 fieldValid>>

\* The callback a transform is given: lines 390-398.
TransformCallback(f, err, v) ==
  IF err # "null"
    THEN [f EXCEPT !.err = err, !.stepErr = err, !.inflight = FALSE]
    ELSE [f EXCEPT !.value = v, !.idx = @ + 1, !.inflight = FALSE]

\* One item of runTransforms' eachSeries: lines 381-398.
TransformStep(i) ==
  /\ Running(i)
  /\ fs[i].st \in {"before", "after"}
  /\ fs[i].err = "null"
  /\ fs[i].idx <= Len(StepList(i))
  /\ LET step == StepList(i)[fs[i].idx]
         c    == TransformCall(step.name, definitions[i], step.opts)
     IN IF Skipped(step.opts)
          THEN /\ fs' = [fs EXCEPT ![i].idx = @ + 1]
               /\ UNCHANGED <<run, active, thrown, launched, validationResults,
                              isFormValid, eachCalled, addlInvoked, cb, fieldValid>>
        ELSE IF c.r = "throw"
          THEN Throw(i, step.name, c.err)
        ELSE /\ fs' = [fs EXCEPT ![i] =
                         IF c.r = "call"
                           THEN [@ EXCEPT !.inflight = TRUE, !.invoked = Logged(i, step.name)]
                           ELSE TransformCallback([@ EXCEPT !.invoked = Logged(i, step.name)],
                                                  "null", c.v)]
             /\ UNCHANGED <<run, active, thrown, launched, validationResults,
                            isFormValid, eachCalled, addlInvoked, cb, fieldValid>>
  /\ UNCHANGED defVars

\* A custom function may call finish at once (the field is still on the
\* stack) or in a later tick (the stack is empty and async.each has started
\* every field).
MayComplete(i) ==
  /\ i \in DOMAIN fs
  /\ thrown = "none"
  /\ fs[i].inflight
  /\ active = i \/ (active = 0 /\ launched = Len(fs))

\* The custom transform function calls finish: lines 594-597, then 390-398.
CustomTransformDone(i) ==
  /\ MayComplete(i)
  /\ fs[i].st \in {"before", "after"}
  /\ LET step == StepList(i)[fs[i].idx]
         out  == CustomTransformFn(step.opts.arg, definitions[i].value)
     IN fs' = [fs EXCEPT ![i] = TransformCallback(@, out.err, out.v)]
  /\ active' = i
  /\ UNCHANGED defVars
  /\ UNCHANGED <<run, thrown, launched, validationResults, isFormValid, eachCalled,
                 addlInvoked, cb, fieldValid>>

\* The custom function returns without having called finish.
Suspend(i) ==
  /\ i \in DOMAIN fs
  /\ thrown = "none"
  /\ active = i
  /\ fs[i].inflight
  /\ active' = 0
  /\ UNCHANGED defVars
  /\ UNCHANGED <<run, thrown, launched, fs, validationResults, isFormValid, eachCalled,
                 addlInvoked, cb, fieldValid>>

\* StoreValue overwriting the audit copy as well.
StoreValueAndRaw(defs, i, v) == [defs EXCEPT ![i].value = v, ![i].rawValue = v]

\* definition.value = transformedValue: lines 279 and 299.
StoreValue(defs, i, v) == [defs EXCEPT ![i].value = v]

\* The final callback of runTransforms' eachSeries (lines 400-403) and the
\* callback validate() gave it: lines 274-282 (before) or 294-302 (after).
TransformsDone(i) ==
  /\ Running(i)
  /\ fs[i].st \in {"before", "after"}
  /\ fs[i].err # "null" \/ fs[i].idx > Len(StepList(i))
  /\ IF fs[i].err # "null"
       THEN /\ fs' = [fs EXCEPT ![i].st = "done"]
            /\ NextField(fs[i].err, fs', isFormValid, validationResults)
            /\ UNCHANGED definitions
     ELSE IF fs[i].st = "before"
       THEN /\ definitions' = StoreValue(definitions, i, fs[i].value)
            /\ fs' = [fs EXCEPT ![i] = [@ EXCEPT !.st = "validations", !.idx = 1,
                                                 !.isFieldValid = TRUE, !.result = <<>>,
                                                 !.beforeEnd = fs[i].value]]
            /\ UNCHANGED <<active, eachCalled, cb, run, thrown, addlInvoked>>
     ELSE /\ definitions' = StoreValue(definitions, i, fs[i].value)
          /\ fs' = [fs EXCEPT ![i] = [@ EXCEPT !.st = "done", !.afterEnd = fs[i].value]]
          /\ NextField("null", fs', isFormValid, validationResults)
  /\ UNCHANGED <<stopOnInvalid, rawData, additionalValidationFn, lastError>>
  /\ UNCHANGED <<launched, validationResults, isFormValid, fieldValid>>

\* ValidationCallback without line 442: a failed step never stops the series.
ValidationCallbackNeverStops(f, n, err, isValid, reason) ==
  IF err # "null"
    THEN [f EXCEPT !.err = err, !.stepErr = err, !.inflight = FALSE]
    ELSE [f EXCEPT !.isFieldValid = @ /\ isValid,
                   !.result = Append(@, [name |-> n, isValid |-> isValid, reason |-> reason]),
                   !.idx = @ + 1,
                   !.inflight = FALSE]

\* ValidationCallback with line 442 reading `if (!isValid)`: a failed step
\* stops the series whatever stopOnInvalid says.
ValidationCallbackAlwaysStops(f, n, err, isValid, reason) ==
  IF err # "null"
    THEN [f EXCEPT !.err = err, !.stepErr = err, !.inflight = FALSE]
    ELSE [f EXCEPT !.isFieldValid = @ /\ isValid,
                   !.result = Append(@, [name |-> n, isValid |-> isValid, reason |-> reason]),
                   !.err = IF ~isValid THEN "stop" ELSE "null",
                   !.idx = @ + 1,
                   !.inflight = FALSE]

\* The callback a validation is given: lines 430-447.
ValidationCallback(f, n, err, isValid, reason) ==
  IF err # "null"
    THEN [f EXCEPT !.err = err, !.stepErr = err, !.inflight = FALSE]
    ELSE [f EXCEPT !.isFieldValid = @ /\ isValid,
                   !.result = Append(@, [name |-> n, isValid |-> isValid, reason |-> reason]),
                   !.err = IF ~isValid /\ stopOnInvalid THEN "stop" ELSE "null",
                   !.idx = @ + 1,
                   !.inflight = FALSE]

\* One item of runValidations' eachSeries: lines 421-447.
ValidationStep(i) ==
  /\ Running(i)
  /\ fs[i].st = "validations"
  /\ fs[i].err = "null"
  /\ fs[i].idx <= Len(StepList(i))
  /\ LET step == StepList(i)[fs[i].idx]
         c    == ValidationCall(step.name, definitions[i], step.opts)
     IN IF Skipped(step.opts)
          THEN /\ fs' = [fs EXCEPT ![i].idx = @ + 1]
               /\ UNCHANGED <<run, active, thrown, launched, validationResults,
                              isFormValid, eachCalled, addlInvoked, cb, fieldValid>>
        ELSE IF c.r = "throw"
          THEN Throw(i, step.name, c.err)
        ELSE /\ fs' = [fs EXCEPT ![i] =
                         IF c.r = "call"
                           THEN [@ EXCEPT !.inflight = TRUE, !.invoked = Logged(i, step.name)]
                           ELSE ValidationCallback([@ EXCEPT !.invoked = Logged(i, step.name)],
                                                   step.name, "null", c.isValid, c.reason)]
             /\ UNCHANGED <<run, active, thrown, launched, validationResults,
                            isFormValid, eachCalled, addlInvoked, cb, fieldValid>>
  /\ UNCHANGED defVars

\* The custom validation function calls finish: lines 947-950, then 430-447.
CustomValidationDone(i) ==
  /\ MayComplete(i)
  /\ fs[i].st = "validations"
  /\ LET step == StepList(i)[fs[i].idx]
         out  == CustomValidationFn(step.opts.arg, definitions[i].value)
     IN fs' = [fs EXCEPT ![i] =
                 ValidationCallback(@, step.name, out.err, out.isValid, out.reason)]
  /\ active' = i
  /\ UNCHANGED defVars
  /\ UNCHANGED <<run, thrown, launched, validationResults, isFormValid, eachCalled,
                 addlInvoked, cb, fieldValid>>

\* After a field's validations validate() goes on to its after-transforms
\* unless the field is invalid and stopOnInvalid is set: line 291.
StopsField(isFieldValid) == ~isFieldValid /\ stopOnInvalid

\* The final callback of runValidations' eachSeries (lines 449-460) and the
\* callback validate() gave it: lines 282-294.
ValidationsDone(i) ==
  /\ Running(i)
  /\ fs[i].st = "validations"
  /\ fs[i].err # "null" \/ fs[i].idx > Len(StepList(i))
  /\ LET isFieldValid == IF fs[i].err = "stop" THEN FALSE ELSE fs[i].isFieldValid
         vr  == Put(validationResults, definitions[i].fieldName, fs[i].result)
         ifv == isFormValid /\ isFieldValid
     IN IF fs[i].err \notin {"null", "stop"}
          THEN /\ fs' = [fs EXCEPT ![i].st = "done"]
               /\ NextField(fs[i].err, fs', isFormValid, validationResults)
               /\ UNCHANGED <<validationResults, isFormValid, fieldValid>>
        ELSE /\ validationResults' = vr
             /\ isFormValid' = ifv
             /\ fieldValid' = [fieldValid EXCEPT ![i] = B(isFieldValid)]
             /\ IF StopsField(isFieldValid)
                  THEN /\ fs' = [fs EXCEPT ![i].st = "done"]
                       /\ NextField("stop", fs', ifv, vr)
                  ELSE /\ fs' = [fs EXCEPT ![i] =
                                   [@ EXCEPT !.st = "after", !.idx = 1, !.err = "null",
                                             !.value = PipelineStart(definitions[i]),
                                             !.afterStart = PipelineStart(definitions[i])]]
                       /\ UNCHANGED <<active, eachCalled, cb, run, thrown, addlInvoked>>
  /\ UNCHANGED defVars
  /\ UNCHANGED launched

\* The additional check calls finish: lines 336-350.  Whatever it reports,
\* the handler ends in next(...), which is the boolean: a TypeError.
AdditionalDone ==
  /\ run = "additional"
  /\ thrown = "none"
  /\ thrown' = "next-is-not-a-function"
  /\ run' = "crashed"
  /\ UNCHANGED defVars
  /\ UNCHANGED <<launched, active, fs, validationResults, isFormValid, eachCalled,
                 addlInvoked, cb, fieldValid>>

Next ==
  \/ \E input \in FieldInputs : DefineField(input)
  \/ \E fn \in AdditionalInputs : AdditionalValidation(fn)
  \/ \E n \in FieldNames : AttachFieldData(n, "note", "data")
  \/ Validate
  \/ Launch
  \/ \E i \in 1..N : TransformStep(i)
  \/ \E i \in 1..N : CustomTransformDone(i)
  \/ \E i \in 1..N : Suspend(i)
  \/ \E i \in 1..N : TransformsDone(i)
  \/ \E i \in 1..N : ValidationStep(i)
  \/ \E i \in 1..N : CustomValidationDone(i)
  \/ \E i \in 1..N : ValidationsDone(i)
  \/ AdditionalDone

Spec == Init /\ [][Next]_vars

TypeOK ==
  /\ stopOnInvalid \in BOOLEAN
  /\ launched \in 0..N
  /\ active \in 0..N
  /\ run \in {"idle", "each", "additional", "returned", "crashed"}

-----------------------------------------------------------------------------
(* Properties *)

NamesOf(steps) == [k \in 1..Len(steps) |-> steps[k].name]

InPhase(e, ph) == e.phase = ph

\* Names of the steps of a phase that field i has invoked so far, in order.
InvokedIn(i, ph) == NamesOf(SelectSeq(fs[i].invoked, LAMBDA e : InPhase(e, ph)))

NotSkipped(st) == st.opts.kind # "false" /\ ~(st.opts.kind = "obj" /\ ~st.opts.run)

\* Names of the configured steps that are not switched off, in declared order.
Configured(steps) == NamesOf(SelectSeq(steps, NotSkipped))

IsPrefix(p, q) == Len(p) <= Len(q) /\ \A k \in 1..Len(p) : p[k] = q[k]

HasFailed(i) == \E k \in 1..Len(fs[i].result) : ~fs[i].result[k].isValid

\* C1: with stopOnInvalid set, once a validation step of a field has reported
\* invalid, that step is the last validation of the field that was invoked, no
\* after-transform of the field is invoked, and the field's entry in the
\* results holds exactly the invoked steps: those that passed, then the failed one.
C1_StopOnInvalidShortCircuits ==
  stopOnInvalid =>
    \A i \in DOMAIN fs :
      HasFailed(i) =>
        /\ \A k \in 1..Len(fs[i].result) : fs[i].result[k].isValid <=> k < Len(fs[i].result)
        /\ InvokedIn(i, "validations") = NamesOf(fs[i].result)
        /\ InvokedIn(i, "after") = <<>>
        /\ fs[i].st \in {"validations", "done"}
        /\ fs[i].st = "done" =>
             /\ definitions[i].fieldName \in DOMAIN validationResults
             /\ validationResults[definitions[i].fieldName] = fs[i].result

\* C1 witness: a field stopped at a failed step that came after a passed one,
\* with a further validation and an after-transform configured but not run.
C1_Witness ==
   (/\ stopOnInvalid
    /\ \E i \in DOMAIN fs :
         /\ fs[i].st = "done"
         /\ HasFailed(i)
         /\ Len(fs[i].result) >= 2
         /\ Len(Configured(definitions[i].validations)) > Len(fs[i].result)
         /\ Configured(definitions[i].after) # <<>>)

\* C2: with stopOnInvalid off, the validations of a field are invoked in
\* declared order, skipped ones left out; when the field's validations have
\* completed, none of them with an error, every configured one was invoked,
\* the result has one entry per invoked step and the field's validity is the
\* conjunction of the outcomes.
C2_AllValidationsRun ==
  ~stopOnInvalid =>
    \A i \in DOMAIN fs :
      /\ IsPrefix(InvokedIn(i, "validations"), Configured(definitions[i].validations))
      /\ fieldValid[i] # "null" /\ fs[i].stepErr = "null" =>
           /\ InvokedIn(i, "validations") = Configured(definitions[i].validations)
           /\ NamesOf(fs[i].result) = InvokedIn(i, "validations")
           /\ fieldValid[i] = B(\A k \in 1..Len(fs[i].result) : fs[i].result[k].isValid)
           /\ validationResults[definitions[i].fieldName] = fs[i].result

\* C2 witness: a field whose validations completed with a failed step that was
\* followed by another executed step, and with a skipped step in its list.
C2_Witness ==
   (/\ ~stopOnInvalid
    /\ \E i \in DOMAIN fs :
         /\ fieldValid[i] = "false"
         /\ \E k \in 1..(Len(fs[i].result) - 1) : ~fs[i].result[k].isValid
         /\ Len(definitions[i].validations) > Len(fs[i].result))

\* C3: a field whose validation failed has had no after-transform invoked and
\* still holds the value its before-transforms left, whatever stopOnInvalid is.
C3_AfterTransformsOnlyIfValid ==
  \A i \in DOMAIN fs :
    fieldValid[i] = "false" =>
      /\ InvokedIn(i, "after") = <<>>
      /\ definitions[i].value = fs[i].beforeEnd

\* The value a transform step makes of v.
ApplyTransform(st, d, v) ==
  LET c == TransformCall(st.name, [d EXCEPT !.value = v], st.opts)
  IN IF c.r = "call" THEN CustomTransformFn(c.fn, v).v ELSE c.v

\* The composition of the non-skipped transforms, in declared order.
RECURSIVE Chain(_, _, _)
Chain(steps, d, v) ==
  IF steps = <<>> THEN v
  ELSE IF NotSkipped(Head(steps)) THEN Chain(Tail(steps), d, ApplyTransform(Head(steps), d, v))
  ELSE Chain(Tail(steps), d, v)

\* C4: the value stored at the end of a transform phase is the composition of
\* the phase's non-skipped transforms applied to the value the phase started from.
C4_TransformsCompose ==
  \A i \in DOMAIN fs :
    /\ fs[i].beforeEnd # Undefined =>
         fs[i].beforeEnd = Chain(definitions[i].before, definitions[i], fs[i].beforeStart)
    /\ fs[i].afterEnd # Undefined =>
         fs[i].afterEnd = Chain(definitions[i].after, definitions[i], fs[i].afterStart)

\* C5: at most one step is in flight, and a field has a step started only
\* when every field defined before it has completed its pipeline.
C5_OneStepInFlight ==
  /\ Cardinality({i \in DOMAIN fs : fs[i].inflight}) <= 1
  /\ \A i, j \in DOMAIN fs :
       i < j /\ fs[j].invoked # <<>> => fs[i].st = "done"

\* A step reported a fatal error or threw.
StepFatal ==
  \/ \E i \in DOMAIN fs : fs[i].err \notin {"null", "stop"}
  \/ thrown \notin {"none", "next-is-not-a-function"}

\* validate() was called and nothing of the run is left to happen.
Quiescent ==
  /\ run \in {"returned", "crashed"}
  /\ thrown # "none" \/ (launched = Len(fs) /\ \A i \in DOMAIN fs : fs[i].st = "done")

\* C6: the callback's err is non-null only for a fatal error of a step or of
\* the additional check; a run whose only problem is invalid validation steps
\* calls back with err = null, isFormValid = false and the per-field results.
C6_ErrOnlyForFatal ==
  /\ cb.count > 0 /\ cb.err # "null" => \E i \in DOMAIN fs : fs[i].err = cb.err
  /\ Quiescent /\ ~StepFatal /\ (\E i \in DOMAIN fs : HasFailed(i)) =>
       /\ cb.count > 0
       /\ cb.err = "null"
       /\ cb.isFormValid = "false"
       /\ cb.results.def

\* The mapping of every defined field's name to its current value.
FieldValues ==
  [n \in {definitions[k].fieldName : k \in 1..N} |->
     definitions[NameIndex(definitions, n)].value]

\* C7: a callback without fatal error carries a fieldValueHash with one entry
\* per defined field, the field's current value.
C7_FieldValueHash ==
  cb.count > 0 /\ cb.err = "null" =>
    /\ cb.hash.def
    /\ cb.hash.v = FieldValues

\* C8: the run delivers isFormValid, which is true exactly when every field
\* passed validation and the additional check, if registered, reported valid.
C8_FormValidity ==
  Quiescent /\ ~StepFatal /\ N >= 1 =>
    /\ cb.count > 0
    /\ cb.isFormValid = "true" <=>
         /\ \A i \in DOMAIN fs : fieldValid[i] = "true"
         /\ additionalValidationFn # "aInvalid"

\* C9: when a registered additional check exists and the pipeline stopped
\* early on a failed field, the check has been invoked before the callback.
C9_AdditionalCheckAfterStop ==
  /\ cb.count > 0
  /\ cb.err = "null"
  /\ stopOnInvalid
  /\ \E i \in DOMAIN fs : HasFailed(i)
  /\ additionalValidationFn # "null"
  => addlInvoked > 0

\* C10: defineField with an already defined fieldName throws duplicate-field
\* and leaves every stored definition as it was.
C10_DuplicateFieldRejected ==
  [][\A input \in FieldInputs :
       /\ DefineField(input)
       /\ \E k \in 1..N : definitions[k].fieldName = input.fieldName
       => /\ lastError' = "duplicate-field"
          /\ definitions' = definitions]_vars

\* C10 witness: a duplicate was rejected on a form whose only definition
\* holds a falsy value and attached extra data.
C10_Witness ==
  /\ N = 1
  /\ lastError = "duplicate-field"
  /\ ~Truthy(definitions[1].value)
  /\ definitions[1].extraData # {}

\* The errors an input calls for: its data type is no key of validDataTypes,
\* or one of its steps is no key of the registry of its kind.
Unregistered(input) ==
  {e \in {"invalid-data-type", "invalid-transform", "invalid-validation"} :
     \/ e = "invalid-data-type" /\ input.dataType \notin DOMAIN validDataTypes
     \/ e = "invalid-transform" /\
          ~(StepNames(input.before) \cup StepNames(input.after) \subseteq TransformNames)
     \/ e = "invalid-validation" /\ ~(StepNames(input.validations) \subseteq ValidationNames)}

\* C11: defineField for a new field name whose data type does not normalise,
\* or which names a transform or validation that is not registered, throws
\* the corresponding error and leaves the stored definitions as they were.
C11_DefineFieldFailsAtomically ==
  [][\A input \in FieldInputs :
       /\ DefineField(input)
       /\ ~AlreadyDefined(definitions, input.fieldName)
       /\ Unregistered(input) # {}
       => /\ lastError' \in Unregistered(input)
          /\ definitions' = definitions]_vars

\* The automatic before-transforms and validations an input asks for.
WantedBefore(input) ==
  {n \in {"custom", "str-trim"} :
     \/ n = "custom" /\ input.modify # ""
     \/ n = "str-trim" /\
          (input.trim \/ NormalisedDataType(input.dataType) \in {"email", "telephone", "url"})}

WantedValidations(input) ==
  {n \in {"required", "email", "telephone", "url"} :
     \/ n = "required" /\ input.required
     \/ n # "required" /\ n = NormalisedDataType(input.dataType)}

\* Every step of the caller is in the stored list as given, and the stored
\* list adds to the caller's names exactly the wanted ones.
KeepsAndAdds(given, stored, wanted) ==
  /\ \A k \in 1..Len(given) : \E j \in 1..Len(stored) : stored[j] = given[k]
  /\ StepNames(stored) = StepNames(given) \cup wanted

\* C12: a defined field keeps every step the caller specified with the
\* caller's options, whatever they are, and gets an automatic step exactly
\* for the names the caller did not specify.
C12_AutomaticStepsOnlyIfUnspecified ==
  [][\A input \in FieldInputs :
       DefineField(input) /\ lastError' = "none" =>
         /\ KeepsAndAdds(input.before, definitions'[N + 1].before, WantedBefore(input))
         /\ KeepsAndAdds(input.validations, definitions'[N + 1].validations,
                         WantedValidations(input))
         /\ definitions'[N + 1].after = input.after]_vars

\* C13: the required flag of a stored definition is true whenever its
\* validations hold a 'required' step.
C13_RequiredFlagFollowsStep ==
  \A k \in 1..N :
    "required" \in StepNames(definitions[k].validations) => definitions[k].required

\* C14: the starting value of a defined field is the coerced raw value when
\* the bag has an entry for the field, otherwise the coerced defaultValue of
\* the caller and, only if the caller gave none, the default of the data type.
C14_StartValueFromCallerDefault ==
  [][\A input \in FieldInputs :
       DefineField(input) /\ lastError' = "none" =>
         LET t   == NormalisedDataType(input.dataType)
             raw == rawData[input.fieldName]
             src == IF raw # Undefined THEN raw
                    ELSE IF input.defaultValue # Undefined THEN input.defaultValue
                    ELSE DefaultValue(t)
         IN definitions'[N + 1].value = Typecast(t, input.typecasting, src)]_vars

\* The value v has the representation of the canonical data type t (a NaN is
\* of JavaScript's number type).
HasRepresentation(t, v) ==
  CASE t \in {"string", "email", "telephone", "url", "password"} -> v.t = "str"
    [] t \in {"int", "float"}                                    -> v.t \in {"num", "nan"}
    [] t \in {"boolean", "checkbox"}                             -> v.t \in {"bool", "null"}
    [] OTHER                                                     -> TRUE

\* C15: while the validations of a field with typecasting enabled run, its
\* value has the representation of its data type.
C15_ValueMatchesDataType ==
  \A i \in DOMAIN fs :
    fs[i].st = "validations" /\ definitions[i].typecasting =>
      HasRepresentation(definitions[i].dataType, definitions[i].value)

\* C16: the rawValue of every defined field is the raw bag's entry for the
\* field's name, and no step of the program changes it.
C16_RawValueNeverMutated ==
  /\ [](\A k \in 1..N : definitions[k].rawValue = rawData[definitions[k].fieldName])
  /\ [][\A k \in 1..N : definitions'[k].rawValue = definitions[k].rawValue]_vars

\* C16 witness: a form of two fields with an additional check registered; one
\* field, with extra data attached, holds a value that only a second
\* validate() run produces from its empty raw value.
C16_Witness ==
  /\ stopOnInvalid
  /\ N = 2
  /\ additionalValidationFn # "null"
  /\ \E k \in 1..N :
       /\ definitions[k].rawValue = Str(<<>>)
       /\ definitions[k].value = Str(<<"y", "y">>)
       /\ definitions[k].extraData # {}

\* C17: once a run has validated a field, the field's isValid is the outcome
\* the run recorded for it.
C17_IsValidSetByRun ==
  \A i \in DOMAIN fs :
    fieldValid[i] # "null" => definitions[i].isValid = fieldValid[i]

\* C18: for a field that is not required (neither by its flag nor by a
\* 'required' step) and whose value is empty, every validation step that has
\* reported has reported valid.
C18_EmptyOptionalFieldPasses ==
  \A i \in DOMAIN fs :
    /\ fs[i].st = "validations"
    /\ ~definitions[i].required
    /\ "required" \notin StepNames(definitions[i].validations)
    /\ ~Truthy(definitions[i].value)
    => \A k \in 1..Len(fs[i].result) : fs[i].result[k].isValid

\* Field i stands at a switched-off step of the phase it is in.
AtSwitchedOffStep(i) ==
  /\ fs[i].st \in {"before", "validations", "after"}
  /\ fs[i].err = "null"
  /\ ~fs[i].inflight
  /\ fs[i].idx <= Len(StepList(i))
  /\ ~NotSkipped(StepList(i)[fs[i].idx])

\* What has been invoked of every phase of every field leaves out the
\* switched-off steps, and a phase that has completed has invoked all others.
SkippedStepsLeftOut ==
  \A i \in DOMAIN fs :
    /\ IsPrefix(InvokedIn(i, "before"), Configured(definitions[i].before))
    /\ IsPrefix(InvokedIn(i, "validations"), Configured(definitions[i].validations))
    /\ IsPrefix(InvokedIn(i, "after"), Configured(definitions[i].after))
    /\ IsPrefix(NamesOf(fs[i].result), Configured(definitions[i].validations))
    /\ fs[i].beforeEnd # Undefined =>
         InvokedIn(i, "before") = Configured(definitions[i].before)
    /\ fs[i].afterEnd # Undefined =>
         InvokedIn(i, "after") = Configured(definitions[i].after)
    /\ fieldValid[i] # "null" /\ fs[i].stepErr = "null" /\ ~(stopOnInvalid /\ HasFailed(i)) =>
         NamesOf(fs[i].result) = Configured(definitions[i].validations)

\* C19: a step whose options are falsy or carry run = false is not invoked
\* and has no entry in the result, passing it changes nothing of the field
\* but the position in the list, and the steps after it still run.
C19_SkippedStepHasNoEffect ==
  /\ []SkippedStepsLeftOut
  /\ [][\A i \in DOMAIN fs :
          AtSwitchedOffStep(i) /\ fs'[i] # fs[i] =>
            /\ fs'[i] = [fs[i] EXCEPT !.idx = @ + 1]
            /\ definitions' = definitions
            /\ fieldValid' = fieldValid
            /\ validationResults' = validationResults]_vars

\* C19 witness: a field whose first validation is switched off with false
\* has a result for a later one, and a field whose before-phase holds a step
\* with run = false next to an executed one has completed that phase.
C19_Witness ==
  /\ \E i \in DOMAIN fs :
       /\ definitions[i].validations # <<>>
       /\ definitions[i].validations[1].opts.kind = "false"
       /\ fs[i].result # <<>>
  /\ \E j \in DOMAIN fs :
       /\ \E k \in 1..Len(definitions[j].before) :
            definitions[j].before[k].opts.kind = "obj" /\ ~definitions[j].before[k].opts.run
       /\ InvokedIn(j, "before") # <<>>
       /\ fs[j].beforeEnd # Undefined

\* The errors the steps of the run have called back with.
StepErrors == {fs[i].stepErr : i \in DOMAIN fs} \ {"null"}

\* C20: when a run in which a step called back with an error has come to
\* rest, the callback of validate() has been called with that error and
\* without a form result, and the field of the step has no validation outcome.
C20_StepErrorAbortsRun ==
  Quiescent /\ thrown = "none" /\ StepErrors # {} =>
    /\ cb.count = 1
    /\ cb.err \in StepErrors
    /\ cb.isFormValid = "undefined"
    /\ ~cb.results.def
    /\ \A i \in DOMAIN fs : fs[i].stepErr # "null" => fieldValid[i] = "null"

\* The data types a step of the given phase and name allows; custom,
\* required and match-field take every data type.
AllowedDataTypes(ph, n) ==
  CASE ph # "validations" /\ n = "str-trim"  -> {"string", "email", "telephone", "url"}
    [] ph # "validations" /\ n = "str-case"  -> {"string", "email", "url"}
    [] ph # "validations" /\ n = "telephone" -> {"telephone"}
    [] ph = "validations" /\ n = "email"      -> {"email"}
    [] ph = "validations" /\ n = "numeric"    -> {"int", "float"}
    [] ph = "validations" /\ n = "password"   -> {"password"}
    [] ph = "validations" /\ n = "str-length" -> {"string", "email"}
    [] ph = "validations" /\ n = "telephone"  -> {"telephone"}
    [] OTHER                                  -> {definitions[k].dataType : k \in 1..N}

WrongDataTypeError(ph) ==
  IF ph = "validations" THEN "validation-wrong-data-type" ELSE "transform-wrong-data-type"

\* C21: a step that was invoked on a field whose data type it does not allow
\* has thrown the wrong-data-type error of its kind, is the last thing the
\* field did, and has left neither a result entry nor a changed value.
C21_WrongDataTypeIsFatal ==
  \A i \in DOMAIN fs :
    \A k \in 1..Len(fs[i].invoked) :
      definitions[i].dataType \notin AllowedDataTypes(fs[i].invoked[k].phase, fs[i].invoked[k].name)
        => /\ thrown = WrongDataTypeError(fs[i].invoked[k].phase)
           /\ run = "crashed"
           /\ k = Len(fs[i].invoked)
           /\ fs[i].st = fs[i].invoked[k].phase
           /\ fs[i].invoked[k].phase = "validations" =>
                fs[i].invoked[k].name \notin {fs[i].result[j].name : j \in 1..Len(fs[i].result)}

\* C21 witness: the str-trim that trim: true put before an int field has
\* thrown at its first invocation.
C21_Witness ==
  /\ thrown = "transform-wrong-data-type"
  /\ \E i \in DOMAIN fs :
       /\ definitions[i].dataType = "int"
       /\ definitions[i].trim
       /\ InvokedIn(i, "before") = <<"str-trim">>
       /\ fs[i].result = <<>>

\* The options field i gives to its validation of the given name.
ValidationOptions(i, n) ==
  definitions[i].validations[CHOOSE k \in 1..Len(definitions[i].validations) :
                               definitions[i].validations[k].name = n].opts

\* C22: a numeric step with allowZero: false that has reported on the value
\* 0 has reported invalid with reason zero-not-allowed, whatever its min and
\* max are.
C22_ZeroNotAllowed ==
  \A i \in DOMAIN fs :
    \A k \in 1..Len(fs[i].result) :
      /\ fs[i].result[k].name = "numeric"
      /\ ~ValidationOptions(i, "numeric").allowZero
      /\ fs[i].beforeEnd = Num(0)
      => /\ ~fs[i].result[k].isValid
         /\ fs[i].result[k].reason = "zero-not-allowed"

\* v1 == v2 of JavaScript on the values of the model: equal values, or a
\* number and the string of its digits.
LooseEq(v1, v2) ==
  \/ v1 = v2 /\ v1.t # "nan"
  \/ v1.t = "num" /\ v2.t = "str" /\ ParseInt(v2) = v1 /\ ToStr(v1) = v2
  \/ v2.t = "num" /\ v1.t = "str" /\ ParseInt(v1) = v2 /\ ToStr(v2) = v1

\* The outcome match-field is to report for definition d against the other
\* definition.
MatchOutcome(d, other, strict) ==
  IF ~LooseEq(d.value, other.value)
    THEN [isValid |-> FALSE, reason |-> "no-match"]
  ELSE IF strict /\ (d.value # other.value \/ d.dataType # other.dataType)
    THEN [isValid |-> FALSE, reason |-> "loose-match"]
  ELSE [isValid |-> TRUE, reason |-> "null"]

\* C23: a match-field step that was invoked against a defined field has
\* reported: no-match for values that are not loosely equal, loose-match for
\* loosely equal values of differing type in strict mode, and pass otherwise.
C23_MatchFieldOutcome ==
  \A i \in DOMAIN fs :
    LET other == Lookup(definitions, ValidationOptions(i, "match-field").arg)
    IN "match-field" \in {fs[i].invoked[k].name : k \in 1..Len(fs[i].invoked)}
       /\ other # Undefined
       => \E k \in 1..Len(fs[i].result) :
            /\ fs[i].result[k].name = "match-field"
            /\ [isValid |-> fs[i].result[k].isValid, reason |-> fs[i].result[k].reason]
                 = MatchOutcome(definitions[i], other, FALSE)

\* C24: a password step that has reported has reported pass exactly when the
\* scorer reports success for the field's value.
C24_PasswordFollowsScorer ==
  \A i \in DOMAIN fs :
    \A k \in 1..Len(fs[i].result) :
      fs[i].result[k].name = "password" =>
        (fs[i].result[k].isValid <=> CountersignTest(fs[i].beforeEnd))

\* s reads '+CC.D': a plus sign, digits, a dot, digits.
IsInternationalForm(s) ==
  \E k \in 3..(Len(s) - 1) :
    /\ s[1] = "+"
    /\ s[k] = "."
    /\ \A j \in (2..Len(s)) \ {k} : IsDigit(s[j])

\* The 'basic' format of '+CC.D': '+' CC D, or '0' D for the local form.
FormatBasic(s, international) ==
  LET k == CHOOSE j \in 1..Len(s) : s[j] = "."
  IN IF international
       THEN <<"+">> \o SubSeq(s, 2, k - 1) \o SubSeq(s, k + 1, Len(s))
       ELSE <<"0">> \o SubSeq(s, k + 1, Len(s))

\* The options field i gives to its after-transform of the given name.
AfterOptions(i, n) ==
  definitions[i].after[CHOOSE k \in 1..Len(definitions[i].after) :
                         definitions[i].after[k].name = n].opts

\* C25: a telephone after-transform with format 'basic' that was invoked on
\* a value '+CC.D' has returned, and its result is the value in the basic
\* format the international option asks for.
C25_TelephoneBasicFormat ==
  \A i \in DOMAIN fs :
    /\ "telephone" \in {InvokedIn(i, "after")[k] : k \in 1..Len(InvokedIn(i, "after"))}
    /\ fs[i].afterStart.t = "str"
    /\ IsInternationalForm(fs[i].afterStart.s)
    /\ AfterOptions(i, "telephone").arg = "basic"
    => /\ thrown = "none"
       /\ fs[i].value =
            Str(FormatBasic(fs[i].afterStart.s,
                            AfterOptions(i, "telephone").international = "true"))

\* The data carries a client version tag that is not the module's version.
StaleClient ==
  /\ rawData["__FovalClientVersion"] # Undefined
  /\ rawData["__FovalClientVersion"].v # packageVersion

\* C26: for data with a differing version tag the constructor throws
\* old-foval-client-version and there is no form: no field is ever defined,
\* no check registered and no run started; for data with an equal tag or
\* without a tag it throws nothing.
C26_StaleClientRejected ==
  /\ StaleClient =>
       /\ ConstructorError(rawData) = "old-foval-client-version"
       /\ N = 0
       /\ additionalValidationFn = "null"
       /\ run = "idle"
       /\ cb.count = 0
  /\ ~StaleClient => ConstructorError(rawData) = "none"

\* C26 witness: data tagged with an older version, for which the constructor
\* has thrown.
C26_Witness ==
  /\ StaleClient
  /\ rawData["__FovalClientVersion"] = Version("0.0.19")
  /\ ConstructorError(rawData) = "old-foval-client-version"
  /\ definitions = <<>>

\* C27: once validate()'s callback has been called with the per-field
\* results, that object (validationResults itself, handed over by reference)
\* is not written any more while the callback's run lasts.
C27_ResultNotMutatedAfterCallback ==
  [][cb.count > 0 /\ cb.results.def /\ cb' = cb => validationResults' = validationResults]_vars

\* C28: a validate() call whose steps and additional check have all completed
\* without a step throwing has called its callback exactly once: never twice,
\* and once when nothing is left to run.
C28_CallbackExactlyOnce ==
  /\ cb.count <= 1
  /\ (Quiescent /\ run # "idle" /\ thrown \in {"none", "next-is-not-a-function"}) => cb.count = 1

\* C29: validate() can be called again on the same form.  The new call starts
\* afresh (own results, own callback, every field to be launched again) and
\* leaves the stored values alone; each field's before-transforms then start
\* from the value the form holds for it at that moment, i.e. the one the
\* previous call left, and its after-transforms from the value its
\* before-transforms stored.
C29_RevalidateFromCurrentValues ==
  [][/\ (run = "returned" /\ run' = "each") =>
          /\ definitions' = definitions
          /\ validationResults' = <<>>
          /\ isFormValid' = TRUE
          /\ cb' = NoCallback
          /\ launched' = 0
          /\ \A i \in DOMAIN fs' : fs'[i] = NewField
     /\ \A i \in DOMAIN fs :
          /\ (fs[i].st = "new" /\ fs'[i].st = "before") =>
               /\ fs'[i].beforeStart = definitions[i].value
               /\ fs'[i].value = definitions[i].value
          /\ (fs[i].st = "validations" /\ fs'[i].st = "after") =>
               /\ fs'[i].afterStart = fs[i].beforeEnd
               /\ fs'[i].value = fs[i].beforeEnd]_vars

\* A second call has taken the field whose raw value is '' from the 'y' the
\* first call's before-transforms left, through validations and
\* after-transforms (the first call stopped at its validations).
C29_Witness ==
  /\ stopOnInvalid
  /\ \E i \in DOMAIN fs :
       /\ definitions[i].rawValue = Str(<<>>)
       /\ fs[i].beforeStart = Str(<<"y">>)
       /\ fs[i].beforeStart # definitions[i].rawValue
       /\ fs[i].afterEnd # Undefined
       /\ fs[i].st = "done"

\* The last validation of field i is the 'required' step of a field flagged
\* required, behind at least one other validation.
RequiredComesLast(i) ==
  LET v == definitions[i].validations
  IN /\ definitions[i].required
     /\ Len(v) >= 2
     /\ v[Len(v)] = Step("required", OptTrue)

FailedBeforeRequired(i) ==
  \E k \in 1..Len(fs[i].result) :
    ~fs[i].result[k].isValid /\ fs[i].result[k].name # "required"

\* C30: the steps defineField adds on its own come after every step the
\* caller listed (the caller's names, in the caller's order, head the stored
\* lists), so they run last: with stopOnInvalid, a 'required' step at the end
\* of a required field's validations is neither invoked nor reported once an
\* earlier validation of the field has failed.
C30_AutomaticStepsComeLast ==
  /\ [](stopOnInvalid =>
          \A i \in DOMAIN fs :
            RequiredComesLast(i) /\ FailedBeforeRequired(i) =>
              /\ \A k \in 1..Len(fs[i].invoked) : fs[i].invoked[k].name # "required"
              /\ \A k \in 1..Len(fs[i].result) : fs[i].result[k].name # "required")
  /\ [][\A input \in FieldInputs :
          DefineField(input) /\ lastError' = "none" =>
            /\ IsPrefix(NamesOf(input.before), NamesOf(definitions'[N + 1].before))
            /\ IsPrefix(NamesOf(input.validations),
                        NamesOf(definitions'[N + 1].validations))]_vars

\* A required field whose caller listed two validations and no 'required':
\* the added 'required' is the third and last, the first validation failed,
\* and the field ended without 'required' having run.
C30_Witness ==
  /\ stopOnInvalid
  /\ \E i \in DOMAIN fs :
       /\ RequiredComesLast(i)
       /\ Len(definitions[i].validations) = 3
       /\ FailedBeforeRequired(i)
       /\ fs[i].st = "done"
       /\ Len(fs[i].result) = 1
       /\ \A k \in 1..Len(fs[i].invoked) : fs[i].invoked[k].name # "required"

=============================================================================
